---- MODULE Spec2Model ----
(***************************************************************************)
(* Model of the Qwen image-edit API service (qwen-api-service/app.py) and  *)
(* of its UI plugin (tools/qwen_camera_studio.py): the preset tables and   *)
(* execute_camera_edit with the status events it emits.                    *)
(*                                                                         *)
(* Text.  A Python str is modelled as a finite sequence of chunks; every   *)
(* string literal of the source is one chunk and str concatenation is \o.  *)
(* The empty str is << >>.  Free text chosen by a client is a sequence of  *)
(* chunks of UserChunks.  No concatenation of chunks spells another chunk, *)
(* so two texts are equal in the model exactly when the strs are equal.    *)
(* A character outside ASCII is written <U+XXXX> with its code point.      *)
(*                                                                         *)
(* JSON.  A JSON value is a record tagged by t: absent (the key is not in  *)
(* the object), null, str, num, bool.                                      *)
(***************************************************************************)
EXTENDS Naturals, Sequences, FiniteSets, TLC

VARIABLES
    USE_HUGGINGFACE,   \* app.py:29, read once from the environment
    MINIO_ACCESS_KEY,  \* app.py:36, TRUE when the variable is a non-empty str
    MINIO_SECRET_KEY,  \* app.py:37, TRUE when the variable is a non-empty str
    minio_client,      \* app.py:47-58
    qwen_model,        \* app.py:61
    lora_models,       \* app.py:62
    disk,              \* the paths under /app/models that exist
    pc,                \* position of the startup handler
    lora_i,            \* index of the for loop of load_models_from_minio
    hub,               \* how far the hub resolution got in this process
    fallback,          \* whether load_models reached and took the fallback
    fetches,           \* the calls of download_from_minio, in order
    request,           \* the request being answered, NoRequest when idle
    response,          \* the response built for it
    asm,               \* inputs and result of one prompt assembly
    ppc,               \* position of the plugin's execute_camera_edit
    args,              \* its arguments
    events,            \* what it has passed to __event_emitter__, in order
    img_base64,        \* qwen_camera_studio.py:127
    result             \* what it returned, or the exception it raised

vars == << USE_HUGGINGFACE, MINIO_ACCESS_KEY, MINIO_SECRET_KEY, minio_client,
           qwen_model, lora_models, disk, pc, lora_i, hub, fallback,
           fetches, request, response, asm,
           ppc, args, events, img_base64, result >>

config == << USE_HUGGINGFACE, MINIO_ACCESS_KEY, MINIO_SECRET_KEY, minio_client >>
provision == << qwen_model, lora_models, disk, pc, lora_i, hub, fallback, fetches >>
plugin == << ppc, args, events, img_base64, result >>

-----------------------------------------------------------------------------
(* Bounds *)

\* longest free text, in chunks, a request carries
MaxTextLen == 1
\* longest argument, in chunks, of an isolated prompt assembly
MaxAsmLen == 2

-----------------------------------------------------------------------------
(* Text and JSON values *)

Lit(s) == IF s = "" THEN << >> ELSE << s >>

RECURSIVE TextsOver(_, _)
TextsOver(chunks, n) ==
    IF n = 0 THEN { << >> }
    ELSE LET shorter == TextsOver(chunks, n - 1)
         IN  shorter \cup { Append(t, c) : t \in shorter, c \in chunks }

UserChunks == { "x", ", " }
UserTexts == TextsOver(UserChunks, MaxTextLen)

Absent == [t |-> "absent"]
JNull == [t |-> "null"]
JStr(s) == [t |-> "str", s |-> s]
JNum(n) == [t |-> "num", n |-> n]
JBool(b) == [t |-> "bool", b |-> b]

\* dict.get(key, default): the default only when the key is not in the dict
Get(body, key, default) ==
    IF body[key] = Absent THEN default ELSE body[key]

\* dict.get(key): None when the key is not in the dict
GetOrNone(body, key) == Get(body, key, JNull)

-----------------------------------------------------------------------------
(* Configuration constants, app.py:30-44 *)

HUGGINGFACE_MODEL_ID == "Qwen/Qwen2-VL-2B-Instruct"
MODEL_CACHE_DIR == "/app/models"
HUGGINGFACE_CACHE_DIR == "/app/models/huggingface"
LORA_DIR == "/app/models/loras"
MINIO_BUCKET_NAME == "qwen-models"

-----------------------------------------------------------------------------
(* Preset tables *)

\* app.py:322-346
camera_presets ==
       ("Front View" :> "<U+6B63><U+9762><U+89C6><U+89D2>, front view, facing camera directly")
    @@ ("Profile Left" :> "<U+5DE6><U+4FA7><U+8F6E><U+5ED3>, left profile view, 90 degree side angle")
    @@ ("Profile Right" :> "<U+53F3><U+4FA7><U+8F6E><U+5ED3>, right profile view, 90 degree side angle")
    @@ ("Back View" :> "<U+80CC><U+9762><U+89C6><U+89D2>, back view, rear angle")
    @@ ("Three-Quarter Left" :> "<U+5DE6><U+4FA7><U+56DB><U+5206><U+4E4B><U+4E09><U+89C6><U+89D2>, left three-quarter view")
    @@ ("Three-Quarter Right" :> "<U+53F3><U+4FA7><U+56DB><U+5206><U+4E4B><U+4E09><U+89C6><U+89D2>, right three-quarter view")
    @@ ("Top Down View" :> "<U+4FEF><U+89C6><U+56FE>, top-down view, bird's eye perspective")
    @@ ("Low Angle" :> "<U+4EF0><U+89D2><U+89C6><U+56FE>, low angle shot looking up")
    @@ ("Eye Level" :> "<U+5E73><U+89C6>, eye level view, neutral height")
    @@ ("High Angle" :> "<U+4FEF><U+89D2>, high angle looking down")
    @@ ("Dolly In" :> "<U+5411><U+524D><U+63A8><U+8FDB>, camera dollies forward, push in")
    @@ ("Dolly Out" :> "<U+5411><U+540E><U+62C9><U+51FA>, camera dollies backward, pull out")
    @@ ("Crane Up" :> "<U+6447><U+81C2><U+4E0A><U+5347>, crane shot moving upward")
    @@ ("Crane Down" :> "<U+6447><U+81C2><U+4E0B><U+964D>, crane shot moving downward")
    @@ ("Orbit Left" :> "<U+5411><U+5DE6><U+73AF><U+7ED5>, orbit rotating left around subject")
    @@ ("Orbit Right" :> "<U+5411><U+53F3><U+73AF><U+7ED5>, orbit rotating right around subject")
    @@ ("Pan Left" :> "<U+5411><U+5DE6><U+5E73><U+79FB>, camera pans to the left")
    @@ ("Pan Right" :> "<U+5411><U+53F3><U+5E73><U+79FB>, camera pans to the right")
    @@ ("FPV Drone" :> "<U+7B2C><U+4E00><U+4EBA><U+79F0><U+65E0><U+4EBA><U+673A>, FPV drone shot, dynamic motion")
    @@ ("Crash Zoom In" :> "<U+5FEB><U+901F><U+63A8><U+8FDB>, rapid zoom in, dramatic focus")
    @@ ("Wide Angle" :> "<U+5E7F><U+89D2><U+955C><U+5934>, wide angle lens, expansive view")
    @@ ("Close Up" :> "<U+7279><U+5199><U+955C><U+5934>, close-up shot, tight framing")
    @@ ("Dutch Angle" :> "<U+8377><U+5170><U+89D2><U+5EA6>, tilted angle, canted frame")

\* app.py:348-356
lighting_presets ==
       ("None" :> "")
    @@ ("Cinematic" :> "cinematic lighting, dramatic shadows")
    @@ ("Soft Natural" :> "soft natural lighting, diffused")
    @@ ("Studio" :> "studio lighting setup, professional")
    @@ ("Sunset" :> "warm sunset lighting, golden hour")
    @@ ("Neon" :> "neon lighting, vibrant colors")
    @@ ("Volumetric" :> "volumetric lighting, atmospheric rays")

\* qwen_camera_studio.py:38-76
ui_camera_presets ==
       ("Front View" :> "<U+6B63><U+9762><U+89C6><U+89D2>, front view, facing camera directly")
    @@ ("Profile Left" :> "<U+5DE6><U+4FA7><U+8F6E><U+5ED3>, left profile view, 90 degree side angle")
    @@ ("Profile Right" :> "<U+53F3><U+4FA7><U+8F6E><U+5ED3>, right profile view, 90 degree side angle")
    @@ ("Back View" :> "<U+80CC><U+9762><U+89C6><U+89D2>, back view, rear angle")
    @@ ("Three-Quarter Left" :> "<U+5DE6><U+4FA7><U+56DB><U+5206><U+4E4B><U+4E09><U+89C6><U+89D2>, left three-quarter view")
    @@ ("Three-Quarter Right" :> "<U+53F3><U+4FA7><U+56DB><U+5206><U+4E4B><U+4E09><U+89C6><U+89D2>, right three-quarter view")
    @@ ("Top Down View" :> "<U+4FEF><U+89C6><U+56FE>, top-down view, bird's eye perspective")
    @@ ("Low Angle" :> "<U+4EF0><U+89D2><U+89C6><U+56FE>, low angle shot looking up")
    @@ ("Eye Level" :> "<U+5E73><U+89C6>, eye level view, neutral height")
    @@ ("High Angle" :> "<U+4FEF><U+89D2>, high angle looking down")
    @@ ("Dolly In" :> "<U+5411><U+524D><U+63A8><U+8FDB>, camera dollies forward, push in")
    @@ ("Dolly Out" :> "<U+5411><U+540E><U+62C9><U+51FA>, camera dollies backward, pull out")
    @@ ("Crane Up" :> "<U+6447><U+81C2><U+4E0A><U+5347>, crane shot moving upward")
    @@ ("Crane Down" :> "<U+6447><U+81C2><U+4E0B><U+964D>, crane shot moving downward")
    @@ ("Orbit Left" :> "<U+5411><U+5DE6><U+73AF><U+7ED5>, orbit rotating left around subject")
    @@ ("Orbit Right" :> "<U+5411><U+53F3><U+73AF><U+7ED5>, orbit rotating right around subject")
    @@ ("Pan Left" :> "<U+5411><U+5DE6><U+5E73><U+79FB>, camera pans to the left")
    @@ ("Pan Right" :> "<U+5411><U+53F3><U+5E73><U+79FB>, camera pans to the right")
    @@ ("FPV Drone" :> "<U+7B2C><U+4E00><U+4EBA><U+79F0><U+65E0><U+4EBA><U+673A>, FPV drone shot, dynamic motion")
    @@ ("Crash Zoom In" :> "<U+5FEB><U+901F><U+63A8><U+8FDB>, rapid zoom in, dramatic focus")
    @@ ("Wide Angle" :> "<U+5E7F><U+89D2><U+955C><U+5934>, wide angle lens, expansive view")
    @@ ("Close Up" :> "<U+7279><U+5199><U+955C><U+5934>, close-up shot, tight framing")
    @@ ("Dutch Angle" :> "<U+8377><U+5170><U+89D2><U+5EA6>, tilted angle, canted frame")
    @@ ("Rotate 45<U+00B0> Left" :> "<U+5411><U+5DE6><U+65CB><U+8F6C>45<U+5EA6>, rotate camera 45 degrees left")
    @@ ("Rotate 45<U+00B0> Right" :> "<U+5411><U+53F3><U+65CB><U+8F6C>45<U+5EA6>, rotate camera 45 degrees right")
    @@ ("Rotate 90<U+00B0> Left" :> "<U+5411><U+5DE6><U+65CB><U+8F6C>90<U+5EA6>, rotate camera 90 degrees left")
    @@ ("Rotate 90<U+00B0> Right" :> "<U+5411><U+53F3><U+65CB><U+8F6C>90<U+5EA6>, rotate camera 90 degrees right")
    @@ ("Rotate 180<U+00B0>" :> "<U+65CB><U+8F6C>180<U+5EA6>, rotate camera 180 degrees, complete flip")

\* qwen_camera_studio.py:78-86
ui_lighting_presets ==
       ("None" :> "")
    @@ ("Cinematic" :> "cinematic lighting, dramatic shadows")
    @@ ("Soft Natural" :> "soft natural lighting, diffused")
    @@ ("Studio" :> "studio lighting setup, professional")
    @@ ("Sunset" :> "warm sunset lighting, golden hour")
    @@ ("Neon" :> "neon lighting, vibrant colors")
    @@ ("Volumetric" :> "volumetric lighting, atmospheric rays")

-----------------------------------------------------------------------------
(* Model state and the files of the model cache *)

NoModel == [k |-> "None"]
\* the object AutoModel.from_pretrained returns
ModelHandle == [k |-> "AutoModel"]
PathOnly(model_path) == [k |-> "dict", path |-> model_path, loaded |-> FALSE]

\* the directory snapshot_download returns
SnapshotPath == "/app/models/huggingface/snapshot"

qwen_model_path == "/app/models/qwen-image-edit"
ModelFile == "/app/models/qwen-image-edit/model.safetensors"

loras == << "Qwen-Edit-2509-Multiple-angles.safetensors",
            "Qwen-Image-Edit-Lightning-8steps-V1.0.safetensors" >>

LoraPath(lora_name) ==
    IF lora_name = loras[1]
    THEN "/app/models/loras/Qwen-Edit-2509-Multiple-angles.safetensors"
    ELSE "/app/models/loras/Qwen-Image-Edit-Lightning-8steps-V1.0.safetensors"

LoraObject(lora_name) ==
    IF lora_name = loras[1]
    THEN "loras/Qwen-Edit-2509-Multiple-angles.safetensors"
    ELSE "loras/Qwen-Image-Edit-Lightning-8steps-V1.0.safetensors"

\* os.path.dirname of a destination file
Dirname(file_path) ==
    IF file_path = ModelFile THEN qwen_model_path ELSE LORA_DIR

\* the paths whose existence the provisioner tests or changes
TrackedPaths ==
    { qwen_model_path, ModelFile } \cup { LoraPath(loras[i]) : i \in 1..Len(loras) }

\* a file exists only inside an existing directory
DiskStates ==
    { d \in SUBSET TrackedPaths : ModelFile \in d => qwen_model_path \in d }

\* The outcomes of one call download_from_minio(bucket, object, file_path),
\* app.py:65-81: no client; makedirs raises; fget_object raises; the file is
\* written.  issued says whether fget_object was called.
download_from_minio(client, d, bucket_name, object_name, file_path) ==
    IF client = "None"
    THEN { [ok |-> FALSE, issued |-> FALSE, disk |-> d] }
    ELSE { [ok |-> FALSE, issued |-> FALSE, disk |-> d],
           [ok |-> FALSE, issued |-> TRUE,
            disk |-> (d \cup { Dirname(file_path) }) \cap TrackedPaths],
           [ok |-> TRUE, issued |-> TRUE,
            disk |-> (d \cup { Dirname(file_path), file_path }) \cap TrackedPaths] }

-----------------------------------------------------------------------------
(* Requests and responses *)

NoRequest == [route |-> "none"]
NoResponse == [status |-> 0]
NoAsm == [phase |-> "none"]

Respond(status_code, body) == [status |-> status_code, body |-> body]

NoArgs == [image_path |-> "none"]
NoResult == [ok |-> "pending"]

\* the plugin before execute_camera_edit is called
PluginIdle ==
    /\ ppc = "idle"
    /\ args = NoArgs
    /\ events = << >>
    /\ img_base64 = JNull
    /\ result = NoResult

-----------------------------------------------------------------------------
(* Initial state: the module has been imported, startup has not run *)

Init ==
    /\ USE_HUGGINGFACE \in BOOLEAN
    /\ MINIO_ACCESS_KEY \in BOOLEAN
    /\ MINIO_SECRET_KEY \in BOOLEAN
    \* app.py:47-58: a client only with both keys, and None when Minio() raises
    /\ minio_client \in (IF MINIO_ACCESS_KEY /\ MINIO_SECRET_KEY
                         THEN { "Minio", "None" } ELSE { "None" })
    /\ qwen_model = NoModel
    /\ lora_models = << >>
    /\ disk \in DiskStates
    /\ pc = "start"
    /\ lora_i = 0
    /\ hub = "not_tried"
    /\ fallback = "not_reached"
    /\ fetches = << >>
    /\ request = NoRequest
    /\ response = NoResponse
    /\ PluginIdle
    /\ asm = NoAsm

-----------------------------------------------------------------------------
(* startup -> load_models, app.py:154-170 and 406-412 *)

\* load_models_from_huggingface, snapshot_download raises: return False
HubDownloadFails ==
    /\ pc = "start"
    /\ USE_HUGGINGFACE
    /\ hub' = "failed"
    /\ pc' = "fallback"
    /\ UNCHANGED << config, qwen_model, lora_models, disk, lora_i, fallback,
                    fetches, request, response, asm, plugin >>

\* load_models_from_huggingface, snapshot_download returns the model path
HubDownloadSucceeds ==
    /\ pc = "start"
    /\ USE_HUGGINGFACE
    /\ hub' = "downloaded"
    /\ pc' = "hf_load"
    /\ UNCHANGED << config, qwen_model, lora_models, disk, lora_i, fallback,
                    fetches, request, response, asm, plugin >>

\* load_models with USE_HUGGINGFACE false: straight to the fallback
SkipHub ==
    /\ pc = "start"
    /\ ~USE_HUGGINGFACE
    /\ pc' = "fallback"
    /\ UNCHANGED << config, qwen_model, lora_models, disk, lora_i, hub,
                    fallback, fetches, request, response, asm, plugin >>

\* HubLoad with the failed in-memory load treated as a failed download
HubLoadEscalates ==
    /\ pc = "hf_load"
    /\ \E loaded \in BOOLEAN :
          /\ qwen_model' = IF loaded THEN ModelHandle ELSE qwen_model
          /\ hub' = IF loaded THEN "loaded" ELSE "load_failed"
          /\ pc' = IF loaded THEN "serving" ELSE "fallback"
    /\ UNCHANGED << config, lora_models, disk, lora_i, fallback, fetches,
                    request, response, asm, plugin >>

\* AutoModel.from_pretrained returns or raises; either way return True,
\* and load_models returns
HubLoad ==
    /\ pc = "hf_load"
    /\ \E loaded \in BOOLEAN :
          /\ qwen_model' = IF loaded THEN ModelHandle ELSE PathOnly(SnapshotPath)
          /\ hub' = IF loaded THEN "loaded" ELSE "load_failed"
    /\ pc' = "serving"
    /\ UNCHANGED << config, lora_models, disk, lora_i, fallback, fetches,
                    request, response, asm, plugin >>

\* Fallback without the test of minio_client
FallbackUnguarded ==
    /\ pc = "fallback"
    /\ pc' = "minio_model"
    /\ fallback' = "attempted"
    /\ UNCHANGED << config, qwen_model, lora_models, disk, lora_i, hub,
                    fetches, request, response, asm, plugin >>

\* load_models, app.py:164-170
Fallback ==
    /\ pc = "fallback"
    /\ IF minio_client # "None"
       THEN /\ pc' = "minio_model"
            /\ fallback' = "attempted"
       ELSE /\ pc' = "serving"
            /\ fallback' = "no_client"
    /\ UNCHANGED << config, qwen_model, lora_models, disk, lora_i, hub,
                    fetches, request, response, asm, plugin >>

\* load_models_from_minio, app.py:132-137
MinioModel ==
    /\ pc = "minio_model"
    /\ IF qwen_model_path \notin disk
       THEN \E out \in download_from_minio(minio_client, disk, MINIO_BUCKET_NAME,
                           "qwen-image-edit/model.safetensors", ModelFile) :
               /\ disk' = out.disk
               /\ fetches' = Append(fetches,
                      [object |-> "qwen-image-edit/model.safetensors",
                       issued |-> out.issued, ok |-> out.ok])
       ELSE UNCHANGED << disk, fetches >>
    /\ pc' = "minio_lora"
    /\ lora_i' = 1
    /\ UNCHANGED << config, qwen_model, lora_models, hub, fallback,
                    request, response, asm, plugin >>

\* MinioLora leaving the loop when a download fails
MinioLoraStopsOnFailure ==
    /\ pc = "minio_lora"
    /\ lora_i <= Len(loras)
    /\ LET lora_name == loras[lora_i]
           lora_path == LoraPath(lora_name)
       IN  IF lora_path \notin disk
           THEN \E out \in download_from_minio(minio_client, disk, MINIO_BUCKET_NAME,
                               LoraObject(lora_name), lora_path) :
                   /\ disk' = out.disk
                   /\ fetches' = Append(fetches,
                          [object |-> LoraObject(lora_name),
                           issued |-> out.issued, ok |-> out.ok])
                   /\ pc' = IF out.ok THEN pc ELSE "serving"
           ELSE UNCHANGED << disk, fetches, pc >>
    /\ lora_i' = lora_i + 1
    /\ UNCHANGED << config, qwen_model, lora_models, hub, fallback,
                    request, response, asm, plugin >>

\* load_models_from_minio, one pass of the loop of app.py:145-149
MinioLora ==
    /\ pc = "minio_lora"
    /\ lora_i <= Len(loras)
    /\ LET lora_name == loras[lora_i]
           lora_path == LoraPath(lora_name)
       IN  IF lora_path \notin disk
           THEN \E out \in download_from_minio(minio_client, disk, MINIO_BUCKET_NAME,
                               LoraObject(lora_name), lora_path) :
                   /\ disk' = out.disk
                   /\ fetches' = Append(fetches,
                          [object |-> LoraObject(lora_name),
                           issued |-> out.issued, ok |-> out.ok])
           ELSE UNCHANGED << disk, fetches >>
    /\ lora_i' = lora_i + 1
    /\ UNCHANGED << config, qwen_model, lora_models, pc, hub, fallback,
                    request, response, asm, plugin >>

\* MinioDone recording the fetched base model as the model state
MinioDoneRegistersModel ==
    /\ pc = "minio_lora"
    /\ lora_i > Len(loras)
    /\ pc' = "serving"
    /\ qwen_model' = IF ModelFile \in disk THEN PathOnly(qwen_model_path)
                     ELSE qwen_model
    /\ UNCHANGED << config, lora_models, disk, lora_i, hub,
                    fallback, fetches, request, response, asm, plugin >>

\* the loop is exhausted: load_models_from_minio and load_models return
MinioDone ==
    /\ pc = "minio_lora"
    /\ lora_i > Len(loras)
    /\ pc' = "serving"
    /\ UNCHANGED << config, qwen_model, lora_models, disk, lora_i, hub,
                    fallback, fetches, request, response, asm, plugin >>

Startup ==
    \/ HubDownloadFails
    \/ HubDownloadSucceeds
    \/ SkipHub
    \/ HubLoad
    \/ Fallback
    \/ MinioModel
    \/ MinioLora
    \/ MinioDone

-----------------------------------------------------------------------------
(* GET /health and GET /api/v1/models *)

\* health_check reporting the model state in its status code
health_check_by_model ==
    Respond(IF qwen_model = NoModel THEN 503 ELSE 200,
            [status |-> "healthy", service |-> "qwen-api"])

\* app.py:176-180
health_check ==
    Respond(200, [status |-> "healthy", service |-> "qwen-api"])

\* list_models reporting the origin the model came from
list_models_by_origin(model, adapters, use_hf) ==
    LET from_hub == model # NoModel
        model_info ==
            [loaded |-> IF model.k = "dict" THEN model.loaded ELSE model # NoModel,
             source |-> IF from_hub THEN "huggingface" ELSE "minio",
             model_id |-> IF from_hub THEN JStr(Lit(HUGGINGFACE_MODEL_ID)) ELSE JNull,
             path |-> IF model.k = "dict" THEN model.path
                      ELSE IF use_hf THEN HUGGINGFACE_CACHE_DIR ELSE MODEL_CACHE_DIR]
    IN  Respond(200,
            [qwen_image_edit |-> model_info,
             loras |-> [available |-> DOMAIN adapters, path |-> LORA_DIR],
             cache_dirs |-> [huggingface |-> HUGGINGFACE_CACHE_DIR,
                             minio |-> MODEL_CACHE_DIR,
                             loras |-> LORA_DIR]])

\* list_models without the override of app.py:265-267
list_models_no_override(model, adapters, use_hf) ==
    Respond(200,
        [qwen_image_edit |->
            [loaded |-> model # NoModel,
             source |-> IF use_hf THEN "huggingface" ELSE "minio",
             model_id |-> IF use_hf THEN JStr(Lit(HUGGINGFACE_MODEL_ID)) ELSE JNull,
             path |-> IF use_hf THEN HUGGINGFACE_CACHE_DIR ELSE MODEL_CACHE_DIR],
         loras |-> [available |-> DOMAIN adapters, path |-> LORA_DIR],
         cache_dirs |-> [huggingface |-> HUGGINGFACE_CACHE_DIR,
                         minio |-> MODEL_CACHE_DIR,
                         loras |-> LORA_DIR]])

\* app.py:258-286
list_models(model, adapters, use_hf) ==
    LET model_info ==
            [loaded |-> IF model.k = "dict" THEN model.loaded ELSE model # NoModel,
             source |-> IF use_hf THEN "huggingface" ELSE "minio",
             model_id |-> IF use_hf THEN JStr(Lit(HUGGINGFACE_MODEL_ID)) ELSE JNull,
             path |-> IF model.k = "dict" THEN model.path
                      ELSE IF use_hf THEN HUGGINGFACE_CACHE_DIR ELSE MODEL_CACHE_DIR]
    IN  Respond(200,
            [qwen_image_edit |-> model_info,
             loras |-> [available |-> DOMAIN adapters, path |-> LORA_DIR],
             cache_dirs |-> [huggingface |-> HUGGINGFACE_CACHE_DIR,
                             minio |-> MODEL_CACHE_DIR,
                             loras |-> LORA_DIR]])

\* the server accepts requests once the startup handler has returned
Idle == pc = "serving" /\ request = NoRequest

Health ==
    /\ Idle
    /\ request' = [route |-> "/health"]
    /\ response' = health_check
    /\ UNCHANGED << config, provision, asm, plugin >>

ListModels ==
    /\ Idle
    /\ request' = [route |-> "/api/v1/models"]
    /\ response' = list_models(qwen_model, lora_models, USE_HUGGINGFACE)
    /\ UNCHANGED << config, provision, asm, plugin >>

\* the response is sent and the connection is free again
Reply ==
    /\ request # NoRequest
    /\ request' = NoRequest
    /\ response' = NoResponse
    /\ UNCHANGED << config, provision, asm, plugin >>

-----------------------------------------------------------------------------
(* Bytes, base64 and the image codec *)

\* A str JSON value whose characters are the base64 encoding of `bytes`
JB64(bytes) == [t |-> "str", b64 |-> bytes]

EmptyBytes == [fmt |-> "empty"]
\* bytes that no image decoder accepts
JunkBytes == [fmt |-> "junk"]
\* the bytes of an image file: px is the sequence of sample values its
\* decoder yields
ImageFile(fmt, mode, px, truncated) ==
    [fmt |-> fmt, mode |-> mode, px |-> px, truncated |-> truncated]

Return(v) == [ok |-> TRUE, v |-> v]
Raise(msg) == [ok |-> FALSE, msg |-> msg]

\* Python truth value of a JSON value
Truthy(v) ==
    CASE v.t = "null" -> FALSE
      [] v.t = "str" -> IF "s" \in DOMAIN v THEN v.s # << >> ELSE TRUE
      [] v.t = "num" -> v.n # 0
      [] v.t = "bool" -> v.b
      [] OTHER -> FALSE

\* the number of base64 alphabet characters of a text
RECURSIVE DataChars(_)
DataChars(text) ==
    IF text = << >> THEN 0
    ELSE (IF Head(text) = "x" THEN 1 ELSE 0) + DataChars(Tail(text))

\* base64.b64decode(s) without validate: characters outside the alphabet are
\* dropped, and what is left must come in groups of four
b64decode(v) ==
    IF v.t # "str"
    THEN Raise("argument should be a bytes-like object or ASCII string")
    ELSE IF "b64" \in DOMAIN v THEN Return(v.b64)
    ELSE IF DataChars(v.s) = 0 THEN Return(EmptyBytes)
    ELSE IF DataChars(v.s) % 4 = 0 THEN Return(JunkBytes)
    ELSE IF DataChars(v.s) % 4 = 1 THEN Raise("Invalid base64-encoded string")
    ELSE Raise("Incorrect padding")

\* PIL.Image.open(io.BytesIO(image_data)): reads the header only
Image_open(image_data) ==
    IF image_data.fmt \in { "empty", "junk" }
    THEN Raise("cannot identify image file")
    ELSE Return([format |-> image_data.fmt, mode |-> image_data.mode,
                 px |-> image_data.px, truncated |-> image_data.truncated])

\* the modes of the images of this model that the PNG writer accepts
PngModes == { "RGB", "L", "I" }

\* The PNG writer stores a sample of mode I, a 32-bit integer, in 16 bits:
\* it writes the value clipped to 0..65535
Clip16(sample) == IF sample > 65535 THEN 65535 ELSE sample

\* the samples the PNG writer stores for an image
PngSamples(image) ==
    IF image.mode = "I"
    THEN [i \in DOMAIN image.px |-> Clip16(image.px[i])]
    ELSE image.px

\* image.save(output_buffer, format="PNG"): loads the pixel data, then writes
Image_save_png(image) ==
    IF image.truncated THEN Raise("image file is truncated")
    ELSE IF image.mode \notin PngModes THEN Raise("cannot write mode as PNG")
    ELSE Return(ImageFile("PNG", image.mode, PngSamples(image), FALSE))

\* app.py:211-227 and 367-376: decode, open, save as PNG, encode
Reencode(image_base64) ==
    LET image_data == b64decode(image_base64)
    IN  IF ~image_data.ok THEN image_data
        ELSE LET image == Image_open(image_data.v)
             IN  IF ~image.ok THEN image
                 ELSE LET output == Image_save_png(image.v)
                      IN  IF ~output.ok THEN output
                          ELSE Return(JB64(output.v))

-----------------------------------------------------------------------------
(* Preset resolution and prompt assembly, app.py:358-365 *)

\* camera_presets.get(camera_preset, camera_preset)
ResolveCamera(camera_preset) ==
    IF /\ camera_preset.t = "str"
       /\ Len(camera_preset.s) = 1
       /\ camera_preset.s[1] \in DOMAIN camera_presets
    THEN JStr(Lit(camera_presets[camera_preset.s[1]]))
    ELSE camera_preset

\* ResolveLighting passing an unknown name through, as ResolveCamera does
ResolveLightingPassThrough(lighting) ==
    IF /\ lighting.t = "str"
       /\ Len(lighting.s) = 1
       /\ lighting.s[1] \in DOMAIN lighting_presets
    THEN JStr(Lit(lighting_presets[lighting.s[1]]))
    ELSE lighting

\* lighting_presets.get(lighting, "")
ResolveLighting(lighting) ==
    IF /\ lighting.t = "str"
       /\ Len(lighting.s) = 1
       /\ lighting.s[1] \in DOMAIN lighting_presets
    THEN JStr(Lit(lighting_presets[lighting.s[1]]))
    ELSE JStr(<< >>)

\* format(v) inside an f-string
Format(v) ==
    CASE v.t = "str" -> v.s
      [] v.t = "num" -> << ToString(v.n) >>
      [] v.t = "bool" -> IF v.b THEN << "True" >> ELSE << "False" >>
      [] OTHER -> << "None" >>

\* full_prompt += text: a TypeError unless full_prompt is a str
PlusEq(full_prompt, text) ==
    IF full_prompt.t = "str" THEN Return(JStr(full_prompt.s \o text))
    ELSE Raise("unsupported operand type(s) for +=")

\* Assemble with the two appends in the other order
AssembleAdditionalFirst(camera_instruction, lighting_instruction, additional_prompt) ==
    LET with_additional ==
            IF Truthy(additional_prompt)
            THEN PlusEq(camera_instruction, << ", " >> \o Format(additional_prompt))
            ELSE Return(camera_instruction)
    IN  IF ~with_additional.ok THEN with_additional
        ELSE IF Truthy(lighting_instruction)
        THEN PlusEq(with_additional.v, << ", " >> \o Format(lighting_instruction))
        ELSE with_additional

\* app.py:361-365
Assemble(camera_instruction, lighting_instruction, additional_prompt) ==
    LET with_lighting ==
            IF Truthy(lighting_instruction)
            THEN PlusEq(camera_instruction, << ", " >> \o Format(lighting_instruction))
            ELSE Return(camera_instruction)
    IN  IF ~with_lighting.ok THEN with_lighting
        ELSE IF Truthy(additional_prompt)
        THEN PlusEq(with_lighting.v, << ", " >> \o Format(additional_prompt))
        ELSE with_lighting

-----------------------------------------------------------------------------
(* POST /api/v1/edit and POST /api/v1/camera-edit *)

\* app.py:204-209 and 314-319
MissingImage == Respond(400, [error |-> "Missing image data"])

\* app.py:240-245 and 391-396
InvalidJson == Respond(400, [error |-> "Invalid JSON"])

\* InternalError answering as for a malformed request
InternalErrorAs400(msg) == Respond(400, [error |-> msg])

\* app.py:246-252 and 397-403
InternalError(msg) == Respond(500, [error |-> msg])

\* app.py:229-238
EditResponse(output_base64, prompt, steps, use_lightning) ==
    Respond(200, [image |-> output_base64, prompt |-> prompt,
                  steps |-> steps, lightning |-> use_lightning])

\* CameraEditResponse echoing the resolved fragments
CameraEditResponseResolved(output_base64, camera_preset, lighting, full_prompt, steps, use_lightning) ==
    Respond(200, [image |-> output_base64,
                  camera_preset |-> ResolveCamera(camera_preset),
                  lighting |-> ResolveLighting(lighting), prompt |-> full_prompt,
                  steps |-> steps, lightning |-> use_lightning])

\* app.py:378-389
CameraEditResponse(output_base64, camera_preset, lighting, full_prompt, steps, use_lightning) ==
    Respond(200, [image |-> output_base64, camera_preset |-> camera_preset,
                  lighting |-> lighting, prompt |-> full_prompt,
                  steps |-> steps, lightning |-> use_lightning])

\* app.py:196-252.  body.json says what json.loads made of request.body:
\* "invalid" (JSONDecodeError), "array" (a value with no .get) or "object".
edit_image(body) ==
    IF body.json = "invalid" THEN InvalidJson
    ELSE IF body.json # "object"
    THEN InternalError("'list' object has no attribute 'get'")
    ELSE LET image_base64 == GetOrNone(body, "image")
             prompt == Get(body, "prompt", JStr(<< >>))
             steps == Get(body, "steps", JNum(8))
             use_lightning == Get(body, "use_lightning", JBool(TRUE))
         IN  IF ~Truthy(image_base64) THEN MissingImage
             ELSE LET output_base64 == Reencode(image_base64)
                  IN  IF ~output_base64.ok THEN InternalError(output_base64.msg)
                      ELSE EditResponse(output_base64.v, prompt, steps, use_lightning)

\* app.py:304-403
camera_edit(body) ==
    IF body.json = "invalid" THEN InvalidJson
    ELSE IF body.json # "object"
    THEN InternalError("'list' object has no attribute 'get'")
    ELSE LET image_base64 == GetOrNone(body, "image")
             camera_preset == Get(body, "camera_preset", JStr(Lit("Front View")))
             lighting == Get(body, "lighting", JStr(Lit("Cinematic")))
             additional_prompt == Get(body, "additional_prompt", JStr(<< >>))
             steps == Get(body, "steps", JNum(8))
             use_lightning == Get(body, "use_lightning", JBool(TRUE))
         IN  IF ~Truthy(image_base64) THEN MissingImage
             ELSE LET camera_instruction == ResolveCamera(camera_preset)
                      lighting_instruction == ResolveLighting(lighting)
                      full_prompt == Assemble(camera_instruction,
                                              lighting_instruction, additional_prompt)
                 IN  IF ~full_prompt.ok THEN InternalError(full_prompt.msg)
                     ELSE LET output_base64 == Reencode(image_base64)
                          IN  IF ~output_base64.ok
                              THEN InternalError(output_base64.msg)
                              ELSE CameraEditResponse(output_base64.v, camera_preset,
                                       lighting, full_prompt.v, steps, use_lightning)

-----------------------------------------------------------------------------
(* The requests the clients of the model send *)

Files ==
    { JunkBytes,
      ImageFile("PNG", "RGB", << 173, 216, 230 >>, FALSE),
      ImageFile("PNG", "L", << 7 >>, FALSE),
      ImageFile("JPEG", "RGB", << 173, 216, 230 >>, FALSE),
      ImageFile("JPEG", "CMYK", << 0, 0, 0, 255 >>, FALSE),
      ImageFile("PNG", "RGB", << 173, 216, 230 >>, TRUE),
      ImageFile("TIFF", "I", << 1000 >>, FALSE),
      ImageFile("TIFF", "I", << 70000 >>, FALSE) }

ImageValues ==
    { Absent, JNull, JNum(0), JNum(7) }
        \cup { JStr(t) : t \in UserTexts }
        \cup { JB64(f) : f \in Files }

CameraValues ==
    { Absent, JNull, JStr(Lit("My Custom Shot")) }
        \cup { JStr(Lit(name)) : name \in DOMAIN ui_camera_presets }
        \cup { JStr(t) : t \in UserTexts }

LightingValues ==
    { Absent, JNull, JStr(Lit("Moonlight")) }
        \cup { JStr(Lit(name)) : name \in DOMAIN ui_lighting_presets }
        \cup { JStr(t) : t \in UserTexts }

TextValues == { Absent, JNull } \cup { JStr(t) : t \in UserTexts }

\* steps and use_lightning: both left out, or both given
Options == { << Absent, Absent >>, << JNum(4), JBool(FALSE) >> }

Body(json, image, prompt, camera_preset, lighting, additional_prompt, opts) ==
    [json |-> json, image |-> image, prompt |-> prompt,
     camera_preset |-> camera_preset, lighting |-> lighting,
     additional_prompt |-> additional_prompt,
     steps |-> opts[1], use_lightning |-> opts[2]]

\* request bodies json.loads does not turn into a dict
BadBodies ==
    { Body(j, Absent, Absent, Absent, Absent, Absent, << Absent, Absent >>) :
        j \in { "invalid", "array" } }

EditBodies ==
    BadBodies \cup
    { Body("object", i, p, Absent, Absent, Absent, o) :
        i \in ImageValues, p \in TextValues, o \in Options }

CameraBodies ==
    BadBodies \cup
    { Body("object", i, Absent, c, l, a, o) :
        i \in ImageValues, c \in CameraValues, l \in LightingValues,
        a \in TextValues, o \in Options }

\* the bodies of the test script (test_endpoint.py:80-87 and 137-142), a
\* request without image and the two bodies that are no JSON object
OkImage == JB64(ImageFile("PNG", "RGB", << 173, 216, 230 >>, FALSE))

CoreEditBodies ==
    BadBodies \cup
    { Body("object", i, JStr(<< "x" >>), Absent, Absent, Absent,
           << JNum(8), JBool(TRUE) >>) : i \in { Absent, OkImage, JB64(JunkBytes) } }

CoreCameraBodies ==
    BadBodies \cup
    { Body("object", i, Absent, JStr(Lit("Front View")), JStr(Lit("Cinematic")),
           JStr(<< >>), << JNum(8), JBool(TRUE) >>) :
        i \in { Absent, OkImage, JB64(JunkBytes) } }

\* EditImage loading a path-only model into memory on first use
EditImageLoadsModel(bodies) ==
    /\ Idle
    /\ \E body \in bodies :
          /\ request' = [route |-> "/api/v1/edit", body |-> body]
          /\ response' = edit_image(body)
    /\ qwen_model' = IF qwen_model.k = "dict" THEN ModelHandle ELSE qwen_model
    /\ UNCHANGED << config, lora_models, disk, pc, lora_i, hub, fallback,
                    fetches, asm, plugin >>

EditImage(bodies) ==
    /\ Idle
    /\ \E body \in bodies :
          /\ request' = [route |-> "/api/v1/edit", body |-> body]
          /\ response' = edit_image(body)
    /\ UNCHANGED << config, provision, asm, plugin >>

CameraEdit(bodies) ==
    /\ Idle
    /\ \E body \in bodies :
          /\ request' = [route |-> "/api/v1/camera-edit", body |-> body]
          /\ response' = camera_edit(body)
    /\ UNCHANGED << config, provision, asm, plugin >>

-----------------------------------------------------------------------------
(* The UI plugin, src/tools/qwen_camera_studio.py *)

USE_LIGHTNING == TRUE
DEFAULT_STEPS == 8

\* an image_path behind which there is nothing: unreachable host, missing file
NoSource == [fmt |-> "none"]

\* image_path: whether it starts with 'http', and the bytes found behind it
ImagePaths ==
    { [http |-> h, at |-> f] : h \in BOOLEAN, f \in { NoSource } \cup Files }

PluginArgs ==
    { [image_path |-> i, camera_preset |-> c, lighting |-> l,
       additional_prompt |-> a, steps |-> n, emitter |-> e] :
        i \in ImagePaths,
        c \in { "Front View", "Rotate 45<U+00B0> Left" },
        l \in { "Cinematic" },
        a \in UserTexts,
        n \in { 0, 8 },
        e \in { "callable", "None" } }

StatusEvent(description, done) ==
    [type |-> "status", data |-> [description |-> description, done |-> done]]

\* qwen_camera_studio.py:117-122: requests.get returns whatever the server
\* sent, also an error page; it raises when there is no answer
LoadImage(image_path) ==
    IF image_path.at = NoSource
    THEN IF image_path.http THEN Raise("ConnectionError")
         ELSE Raise("FileNotFoundError")
    ELSE Image_open(image_path.at)

\* qwen_camera_studio.py:117-127
EncodeImage(image_path) ==
    LET image == LoadImage(image_path)
    IN  IF ~image.ok THEN image
        ELSE LET buffered == Image_save_png(image.v)
             IN  IF ~buffered.ok THEN buffered ELSE Return(JB64(buffered.v))

\* qwen_camera_studio.py:140-147
Payload(a, image) ==
    Body("object", image, Absent, JStr(Lit(a.camera_preset)),
         JStr(Lit(a.lighting)), JStr(a.additional_prompt),
         << JNum(a.steps), JBool(USE_LIGHTNING) >>)

\* what requests.post does: no answer at all, or an answer: the service's own
\* to this payload, an error answer of the service, or a 200 without image
PostOutcomes(payload) ==
    { [answered |-> FALSE, exc |-> e] : e \in { "ConnectionError", "ReadTimeout" } }
        \cup { [answered |-> TRUE, response |-> r] :
                 r \in { camera_edit(payload),
                         InternalError("CUDA out of memory"),
                         MissingImage,
                         Respond(200, [prompt |-> Lit("x")]) } }

\* qwen_camera_studio.py:198-210
RequestFailed(str_e, text) ==
    LET error_msg == << "API request failed: ", str_e >> \o text
    IN  [event |-> StatusEvent(<< "<U+274C> Error: " >> \o error_msg, TRUE),
         value |-> << "Error generating image: " >> \o error_msg]

\* qwen_camera_studio.py:211-219
OtherFailure(str_e) ==
    [event |-> StatusEvent(<< "<U+274C> Error: ", str_e >>, TRUE),
     value |-> << "Error generating image: ", str_e >>]

\* qwen_camera_studio.py:163-196
Success(a, original, result_image, full_prompt) ==
    [event |-> StatusEvent(<< "<U+2705> Camera edit complete!" >>, TRUE),
     value |-> [html |-> "comparison", title |-> a.camera_preset,
                prompt |-> full_prompt, original |-> original,
                result |-> result_image, steps |-> a.steps,
                lightning |-> USE_LIGHTNING]]

\* qwen_camera_studio.py:138-219: the try block and its two handlers
AfterPost(a, original, outcome) ==
    IF ~outcome.answered THEN RequestFailed(outcome.exc, << >>)
    ELSE LET response_ == outcome.response
         IN  IF response_.status >= 400
             \* raise_for_status: an HTTPError that carries the response
             THEN RequestFailed("HTTPError", << " - ", response_.body.error >>)
             ELSE LET result_data == response_.body
                      result_image == IF "image" \in DOMAIN result_data
                                      THEN result_data.image ELSE JNull
                      full_prompt == IF "prompt" \in DOMAIN result_data
                                     THEN result_data.prompt ELSE << >>
                  IN  IF ~Truthy(result_image)
                      THEN OtherFailure("No image returned from API")
                      ELSE Success(a, original, result_image, full_prompt)

\* qwen_camera_studio.py:222-253 and 109-115: the wrapper fills in the steps,
\* execute_camera_edit emits its first status event
PluginInvoke ==
    /\ ppc = "idle"
    /\ \E a \in PluginArgs :
          /\ args' = [a EXCEPT !.steps = IF a.steps # 0 THEN a.steps
                                          ELSE DEFAULT_STEPS]
          /\ IF a.emitter = "None"
             THEN /\ ppc' = "raised"
                  /\ result' = Raise("'NoneType' object is not callable")
                  /\ UNCHANGED events
             ELSE /\ ppc' = "loading"
                  /\ events' = Append(events,
                        StatusEvent(<< "<U+1F3AC> Setting up ", a.camera_preset,
                                       "..." >>, FALSE))
                  /\ UNCHANGED result
    /\ UNCHANGED << config, provision, request, response, asm, img_base64 >>

\* qwen_camera_studio.py:117-135: load and encode the image, outside any try,
\* then the second status event
PluginLoadImage ==
    /\ ppc = "loading"
    /\ LET encoded == EncodeImage(args.image_path)
       IN  IF ~encoded.ok
           THEN /\ ppc' = "raised"
                /\ result' = encoded
                /\ UNCHANGED << events, img_base64 >>
           ELSE /\ ppc' = "posting"
                /\ img_base64' = encoded.v
                /\ events' = Append(events,
                      StatusEvent(<< "<U+1F3A5> Generating with: ",
                                     args.camera_preset >>, FALSE))
                /\ UNCHANGED result
    /\ UNCHANGED << config, provision, request, response, asm, args >>

\* qwen_camera_studio.py:138-219: the POST and everything after it
PluginPost ==
    /\ ppc = "posting"
    /\ \E outcome \in PostOutcomes(Payload(args, img_base64)) :
          LET end == AfterPost(args, img_base64, outcome)
          IN  /\ events' = Append(events, end.event)
              /\ result' = Return(end.value)
    /\ ppc' = "returned"
    /\ UNCHANGED << config, provision, request, response, asm, args, img_base64 >>

-----------------------------------------------------------------------------
(* Specifications *)

Next ==
    \/ Startup
    \/ Health
    \/ ListModels
    \/ EditImage(CoreEditBodies)
    \/ CameraEdit(CoreCameraBodies)
    \/ Reply

\* the whole service: provisioning at startup, then requests
Spec == Init /\ [][Next]_vars

\* A service that has started from the hub, in each of its three model states
Started ==
    /\ USE_HUGGINGFACE = TRUE
    /\ MINIO_ACCESS_KEY = FALSE
    /\ MINIO_SECRET_KEY = FALSE
    /\ minio_client = "None"
    /\ lora_models = << >>
    /\ disk = {}
    /\ pc = "serving"
    /\ lora_i = 0
    /\ fetches = << >>
    /\ \/ qwen_model = ModelHandle /\ hub = "loaded" /\ fallback = "not_reached"
       \/ qwen_model = PathOnly(SnapshotPath) /\ hub = "load_failed"
             /\ fallback = "not_reached"
       \/ qwen_model = NoModel /\ hub = "failed" /\ fallback = "no_client"

InitApi ==
    /\ Started
    /\ request = NoRequest
    /\ response = NoResponse
    /\ PluginIdle
    /\ asm = NoAsm

NextApi ==
    \/ EditImage(EditBodies)
    \/ CameraEdit(CameraBodies)
    \/ Reply

\* the two edit endpoints of a started service, over all modelled bodies
SpecApi == InitApi /\ [][NextApi]_vars

AsmTexts == TextsOver(UserChunks, MaxAsmLen)

InitAssemble ==
    /\ Started
    /\ request = NoRequest
    /\ response = NoResponse
    /\ PluginIdle
    /\ asm \in { [phase |-> "input", a |-> a, b |-> b, c |-> c] :
                    a \in AsmTexts, b \in AsmTexts, c \in AsmTexts }

\* one evaluation of app.py:361-365 on three strs
AssembleStep ==
    /\ asm.phase = "input"
    /\ asm' = [phase |-> "done", a |-> asm.a, b |-> asm.b, c |-> asm.c,
               out |-> Assemble(JStr(asm.a), JStr(asm.b), JStr(asm.c))]
    /\ UNCHANGED << config, provision, request, response, plugin >>

NextAssemble == AssembleStep

\* prompt assembly alone, on arbitrary strs
SpecAssemble == InitAssemble /\ [][NextAssemble]_vars
InitPlugin ==
    /\ Started
    /\ request = NoRequest
    /\ response = NoResponse
    /\ PluginIdle
    /\ asm = NoAsm

NextPlugin ==
    \/ PluginInvoke
    \/ PluginLoadImage
    \/ PluginPost

\* one call of the plugin against a started service
SpecPlugin == InitPlugin /\ [][NextPlugin]_vars
-----------------------------------------------------------------------------
(* Properties *)

IsEdit == request.route = "/api/v1/edit"
IsCameraEdit == request.route = "/api/v1/camera-edit"

\* the value a field of the request takes in the handler
Given(key, default) == Get(request.body, key, default)

\* a str naming an entry of a preset table
Names(v, table) == v.t = "str" /\ Len(v.s) = 1 /\ v.s[1] \in DOMAIN table

\* ", " + text when the text is not empty
Joined(text) == IF text = << >> THEN << >> ELSE << ", " >> \o text

\* the text of a str field of the request that is absent, null or a str
TextOf(v) == IF v.t = "str" THEN v.s ELSE << >>

\* the prompt the contract prescribes for a camera-edit request whose
\* camera_preset is a str: instruction, then lighting, then additional
ContractPrompt ==
    LET camera_preset == Given("camera_preset", JStr(<< "Front View" >>))
        lighting == Given("lighting", JStr(<< "Cinematic" >>))
        additional_prompt == Given("additional_prompt", JStr(<< >>))
        camera_text == IF Names(camera_preset, camera_presets)
                       THEN Lit(camera_presets[camera_preset.s[1]])
                       ELSE camera_preset.s
        lighting_text == IF Names(lighting, lighting_presets)
                         THEN Lit(lighting_presets[lighting.s[1]])
                         ELSE << >>
    IN  camera_text \o Joined(lighting_text) \o Joined(TextOf(additional_prompt))

\* C1: on both edit endpoints a body that is not valid JSON is answered
\* 400 {"error": "Invalid JSON"}, and every body that parses as JSON and has
\* no image field, or an empty one, is answered 400
\* {"error": "Missing image data"}, whatever its other fields.
C1_MalformedRequestIs400 ==
    (IsEdit \/ IsCameraEdit) =>
        /\ request.body.json = "invalid" =>
              response = Respond(400, [error |-> "Invalid JSON"])
        /\ (request.body.json # "invalid"
              /\ request.body.image \in { Absent, JStr(<< >>) }) =>
              response = Respond(400, [error |-> "Missing image data"])

\* C2: the assembled prompt is the camera instruction, then ", " and the
\* lighting instruction when that is not empty, then ", " and the additional
\* prompt when that is not empty, in this order.
C2_AssembleOrderStable ==
    asm.phase = "done" =>
        asm.out = Return(JStr(asm.a \o Joined(asm.b) \o Joined(asm.c)))

C2_Witness ==
    /\ asm.phase = "done"
    /\ asm.a = << "x" >>
    /\ asm.b = << "x", ", " >>
    /\ asm.c = << ", ", "x" >>
    /\ asm.out = Return(JStr(<< "x", ", ", "x", ", ", ", ", ", ", "x" >>))

\* C3: in a successful camera-edit, a camera_preset name that is not in the
\* camera table is itself the camera instruction, and a lighting name that
\* is not in the lighting table adds nothing to the prompt; "My Custom Shot"
\* with lighting "None" and no additional prompt gives "My Custom Shot".
C3_AsymmetricMiss ==
    (IsCameraEdit /\ response.status = 200) =>
        LET camera_preset == Given("camera_preset", JStr(<< "Front View" >>))
            lighting == Given("lighting", JStr(<< "Cinematic" >>))
            additional == TextOf(Given("additional_prompt", JStr(<< >>)))
            prompt == response.body.prompt
            camera_miss == camera_preset.t = "str"
                              /\ ~Names(camera_preset, camera_presets)
            lighting_miss == lighting.t = "str"
                                /\ ~Names(lighting, lighting_presets)
        IN  /\ camera_miss =>
                  /\ prompt.t = "str"
                  /\ SubSeq(prompt.s, 1, Len(camera_preset.s)) = camera_preset.s
            /\ (camera_miss /\ lighting_miss) =>
                  prompt = JStr(camera_preset.s \o Joined(additional))
            /\ (lighting_miss /\ Names(camera_preset, camera_presets)) =>
                  prompt = JStr(Lit(camera_presets[camera_preset.s[1]])
                                \o Joined(additional))
            /\ (camera_preset = JStr(<< "My Custom Shot" >>)
                  /\ lighting = JStr(<< "None" >>) /\ additional = << >>) =>
                  prompt = JStr(<< "My Custom Shot" >>)

C3_Witness ==
    /\ IsCameraEdit
    /\ response.status = 200
    /\ request.body.camera_preset = JStr(<< "My Custom Shot" >>)
    /\ request.body.lighting = JStr(<< "Moonlight" >>)
    /\ request.body.additional_prompt = JStr(<< "x" >>)
    /\ response.body.prompt = JStr(<< "My Custom Shot", ", ", "x" >>)

\* C4: a successful camera-edit response echoes camera_preset and lighting
\* as the request gave them, or "Front View" and "Cinematic" when the field
\* is absent, never the resolved fragments; prompt is the assembled
\* instruction; steps and lightning echo steps and use_lightning, 8 and true
\* when absent.
C4_EchoesRequest ==
    (IsCameraEdit /\ response.status = 200) =>
        LET camera_preset == request.body.camera_preset
            lighting == request.body.lighting
            steps == request.body.steps
            use_lightning == request.body.use_lightning
        IN  /\ response.body.camera_preset =
                  (IF camera_preset = Absent THEN JStr(<< "Front View" >>)
                   ELSE camera_preset)
            /\ response.body.lighting =
                  (IF lighting = Absent THEN JStr(<< "Cinematic" >>) ELSE lighting)
            /\ response.body.steps = (IF steps = Absent THEN JNum(8) ELSE steps)
            /\ response.body.lightning =
                  (IF use_lightning = Absent THEN JBool(TRUE) ELSE use_lightning)
            /\ response.body.camera_preset.t = "str" =>
                  response.body.prompt = JStr(ContractPrompt)
            /\ Names(response.body.camera_preset, camera_presets) =>
                  response.body.camera_preset.s #
                      Lit(camera_presets[response.body.camera_preset.s[1]])

C4_Witness ==
    /\ IsCameraEdit
    /\ response.status = 200
    /\ request.body.camera_preset = Absent
    /\ request.body.lighting = Absent
    /\ request.body.steps = Absent
    /\ response.body.camera_preset = JStr(<< "Front View" >>)
    /\ response.body.lighting = JStr(<< "Cinematic" >>)
    /\ response.body.steps = JNum(8)
    /\ response.body.lightning = JBool(TRUE)
    /\ response.body.prompt =
          JStr(<< camera_presets["Front View"], ", ", lighting_presets["Cinematic"] >>)

\* C5: for every camera preset name of the UI plugin's table, a successful
\* camera-edit made with that name returns a prompt that begins with that
\* preset's instruction fragment and is not the raw preset name.
C5_UiPresetsResolve ==
    (IsCameraEdit /\ response.status = 200
        /\ Names(request.body.camera_preset, ui_camera_presets)) =>
        LET name == request.body.camera_preset.s[1]
        IN  /\ response.body.prompt # JStr(<< name >>)
            /\ Head(response.body.prompt.s) = ui_camera_presets[name]

\* C6: the hub resolution ends in one of three ways.  Download and load both
\* succeed: the model state is the loaded handle.  Download succeeds and the
\* load fails: the model state keeps the resolved path, startup is over and
\* no fallback is attempted.  Download fails: the model state is unchanged
\* and control reaches the fallback.
C6_HubResolution ==
    /\ hub = "loaded" =>
          /\ qwen_model = ModelHandle
          /\ pc = "serving" /\ fallback = "not_reached" /\ fetches = << >>
    /\ hub = "load_failed" =>
          /\ qwen_model = PathOnly(SnapshotPath)
          /\ pc = "serving" /\ fallback = "not_reached" /\ fetches = << >>
    /\ hub = "failed" =>
          /\ qwen_model = NoModel
          /\ pc \in { "fallback", "minio_model", "minio_lora", "serving" }
          /\ pc # "fallback" => fallback \in { "attempted", "no_client" }

C6_Witness ==
    /\ hub = "load_failed"
    /\ pc = "serving"
    /\ qwen_model = [k |-> "dict", path |-> SnapshotPath, loaded |-> FALSE]
    /\ minio_client = "Minio"

C9_LoadedFlag ==
    request.route = "/api/v1/models" =>
        /\ response.status = 200
        /\ response.body.qwen_image_edit.loaded = (qwen_model = ModelHandle)
        /\ qwen_model = NoModel => ~response.body.qwen_image_edit.loaded
        /\ qwen_model.k = "dict" =>
              /\ ~response.body.qwen_image_edit.loaded
              /\ response.body.qwen_image_edit.path = SnapshotPath

C9_Witness ==
    /\ request.route = "/api/v1/models"
    /\ qwen_model.k = "dict"
    /\ response.body.qwen_image_edit.loaded = FALSE
    /\ response.body.qwen_image_edit.path = SnapshotPath

\* an image value that is not empty and that cannot be decoded from base64,
\* opened as an image or written as PNG
Undecodable(image) ==
    IF image.t \in { "absent", "null" } THEN FALSE
    ELSE IF image.t # "str" THEN Truthy(image)
    ELSE IF "s" \in DOMAIN image THEN image.s # << >>
    ELSE IF image.b64.fmt = "junk" THEN TRUE
    ELSE image.b64.truncated \/ image.b64.mode = "CMYK"

\* C10: on both edit endpoints, a body that is a JSON object with a
\* non-empty image whose base64 decoding, image decoding or PNG encoding
\* fails is answered 500 with a body {"error": message}, never 200 or 400.
C10_CodecFailureIs500 ==
    ((IsEdit \/ IsCameraEdit) /\ request.body.json = "object"
        /\ Undecodable(request.body.image)) =>
        /\ response.status = 500
        /\ DOMAIN response.body = { "error" }

C10_Witness ==
    /\ IsCameraEdit
    /\ request.body.image = JB64(ImageFile("JPEG", "CMYK", << 0, 0, 0, 255 >>, FALSE))
    /\ request.body.camera_preset = JStr(<< "Dolly In" >>)
    /\ response = Respond(500, [error |-> "cannot write mode as PNG"])
\* the image a base64 str decodes to
Decoded(v) == Image_open(b64decode(v).v).v

\* C11: a successful edit returns an image whose decoded pixel content
\* equals that of the input, whatever prompt, steps and use_lightning are.
C11_PixelRoundTrip ==
    (IsEdit /\ response.status = 200) =>
        Decoded(response.body.image).px = Decoded(request.body.image).px
\* C12: in the fallback, the download of each of the three artifacts is
\* skipped if and only if that artifact's destination file exists; an
\* artifact whose destination file is absent is always fetched.
C12_SkipIffFileExists ==
    [][ /\ (pc = "minio_model" /\ pc' = "minio_lora") =>
              ((ModelFile \in disk) <=> (fetches' = fetches))
        /\ (pc = "minio_lora" /\ lora_i' = lora_i + 1) =>
              ((LoraPath(loras[lora_i]) \in disk) <=> (fetches' = fetches)) ]_vars

\* the objects of the fallback in the order of load_models_from_minio
Rank(object_name) ==
    IF object_name = "qwen-image-edit/model.safetensors" THEN 0
    ELSE IF object_name = LoraObject(loras[1]) THEN 1 ELSE 2

\* C13: the fetches of the fallback are made one after the other in the
\* order base model, first adapter, second adapter, each at most once in a
\* startup; a failed fetch stops no later fetch, and no step removes a file
\* an earlier fetch wrote.
C13_SequentialIndependent ==
    /\ [](\A i, j \in DOMAIN fetches :
             i < j => Rank(fetches[i].object) < Rank(fetches[j].object))
    /\ []((pc = "serving" /\ fallback = "attempted") =>
             \A i \in DOMAIN loras :
                 \/ LoraPath(loras[i]) \in disk
                 \/ \E k \in DOMAIN fetches : fetches[k].object = LoraObject(loras[i]))
    /\ [][ /\ disk \subseteq disk'
           /\ Len(fetches') <= Len(fetches) + 1
           /\ SubSeq(fetches', 1, Len(fetches)) = fetches
           /\ pc = "minio_model" => pc' = "minio_lora" ]_vars

C13_Witness ==
    /\ pc = "serving"
    /\ Len(fetches) = 3
    /\ ~fetches[1].ok /\ fetches[2].ok /\ ~fetches[3].ok
    /\ LoraPath(loras[1]) \in disk
    /\ LoraPath(loras[2]) \notin disk
\* C14: the model state is changed at most once, by the provisioner during
\* startup; once the service serves, no operation changes it: health, edit,
\* camera-edit and models leave the model state and the adapter registry
\* as they are, whether they answer with success or with an error.
C14_WriteOnce ==
    [][ /\ qwen_model' # qwen_model =>
              (pc = "hf_load" /\ qwen_model = NoModel /\ qwen_model' # NoModel)
        /\ lora_models' = lora_models
        /\ pc = "serving" =>
              (pc' = "serving" /\ qwen_model' = qwen_model) ]_vars

C14_Witness ==
    /\ IsEdit
    /\ response.status = 500
    /\ qwen_model = PathOnly(SnapshotPath)
    /\ lora_models = << >>

\* C15: the fallback never changes the model state: when provisioning went
\* through the fallback, the model state is Unloaded when startup ends, even
\* with all three artifacts fetched or on disk, and /api/v1/models reports
\* loaded false and no available adapter.
C15_FallbackLeavesUnloaded ==
    /\ fallback \in { "attempted", "no_client" } =>
          (qwen_model = NoModel /\ lora_models = << >>)
    /\ (request.route = "/api/v1/models" /\ fallback # "not_reached") =>
          /\ response.body.qwen_image_edit.loaded = FALSE
          /\ response.body.loras.available = {}

C15_Witness ==
    /\ request.route = "/api/v1/models"
    /\ fallback = "attempted"
    /\ TrackedPaths \subseteq disk
    /\ Len(fetches) = 3
    /\ \A i \in 1..3 : fetches[i].ok
    /\ response.body.qwen_image_edit.loaded = FALSE

\* C16: source and model_id of /api/v1/models follow the configuration
\* flag alone, not the origin the provisioner used: with the flag on, source
\* is "huggingface" also after the hub download failed and the artifacts
\* came from object storage.
C16_SourceFollowsFlag ==
    request.route = "/api/v1/models" =>
        /\ response.body.qwen_image_edit.source =
              (IF USE_HUGGINGFACE THEN "huggingface" ELSE "minio")
        /\ response.body.qwen_image_edit.model_id =
              (IF USE_HUGGINGFACE THEN JStr(<< "Qwen/Qwen2-VL-2B-Instruct" >>)
               ELSE JNull)

C16_Witness ==
    /\ request.route = "/api/v1/models"
    /\ USE_HUGGINGFACE
    /\ hub = "failed"
    /\ Len(fetches) = 3
    /\ \A i \in 1..3 : fetches[i].ok
    /\ response.body.qwen_image_edit.source = "huggingface"
DoneEvents == { i \in DOMAIN events : events[i].data.done }

\* C17: every invocation of execute_camera_edit that emitted its first
\* status event (done false) emits exactly one status event with done true,
\* and that event is the last one emitted, on every path: the input image
\* cannot be fetched or opened, the HTTP request fails or returns an error
\* status, the answer has no image, or the call succeeds. No done event
\* comes before the end, and an invocation that is over has emitted its own.
C17_ExactlyOneFinalDone ==
    /\ DoneEvents \subseteq { Len(events) }
    /\ (ppc \in { "returned", "raised" } /\ events # << >>) =>
          DoneEvents = { Len(events) }
====
